---- MODULE Spec2Model ----
(***************************************************************************)
(* Animal Planet Image API: the Express router of routes/images.js         *)
(* (POST /, GET /, GET /:id, PUT /:id on /api/images), the Multer disk     *)
(* storage that names and writes the uploaded file, the "images"           *)
(* collection of the document store and the uploads/ directory.           *)
(*                                                                         *)
(* Text values are TLA+ strings.  Identifier strings (req.params.id, the   *)
(* hex form of an ObjectId) are sequences of one-character strings, so     *)
(* that parsing them is a computation on their characters.                 *)
(***************************************************************************)
EXTENDS Integers, Sequences, FiniteSets, TLC

\* ---------------------------------------------------------------- bounds
\* Date.now() ranges over 0..MaxTime (milliseconds).
MaxTime == 1
\* POST requests that arrive in a run.
MaxPosts == 2
\* POST requests that may be in progress at once.
MaxInflight == 2

\* -------------------------------------------------------- JavaScript values
\* The value of a property that the object does not have.
Undefined == "<undefined>"
\* BSON / JSON null.
Null == "<null>"

\* obj.key for a parsed body: the value, or undefined when the key is absent.
Prop(obj, key) == IF key \in DOMAIN obj THEN obj[key] ELSE Undefined

\* value || "" : the empty string for a falsy value.
OrEmpty(v) == IF v \in {Undefined, Null, ""} THEN "" ELSE v

\* The driver serialises a document with ignoreUndefined off: a field whose
\* value is undefined is written as null.
BsonValue(v) == IF v = Undefined THEN Null ELSE v

BsonDoc(d) == [k \in DOMAIN d |-> BsonValue(d[k])]

\* ------------------------------------------------------------- ObjectId
\* Length of the hex form of an ObjectId (24 in the driver, scaled down).
ObjectIdHexLen == 2

HexDigits == <<"0", "1", "2", "3", "4", "5", "6", "7", "8", "9",
               "a", "b", "c", "d", "e", "f">>

HexChars == {HexDigits[i] : i \in 1..Len(HexDigits)}

\* Mutant of ObjectIdValid: only the length is checked.
ObjectIdValidLengthOnly(s) == Len(s) = ObjectIdHexLen

\* new ObjectId(s) throws unless s is a hex string of the full length.
ObjectIdValid(s) ==
    /\ Len(s) = ObjectIdHexLen
    /\ \A i \in 1..Len(s) : s[i] \in HexChars

RECURSIVE HexOf(_, _)
\* The len-character hex form of n.
HexOf(n, len) ==
    IF len = 0 THEN <<>>
    ELSE Append(HexOf(n \div 16, len - 1), HexDigits[(n % 16) + 1])

\* The ObjectId the driver generates for the n-th inserted document
\* (n counts from 0); generated ids never repeat.
NewObjectId(n) == HexOf(n, ObjectIdHexLen)

\* ------------------------------------------------------- request inputs
\* req.params.id: the ids of the documents that may exist, one well-formed
\* id that no document ever gets, an id with a non-hex character and an id
\* of the wrong length.
ParamIds ==
    {NewObjectId(n) : n \in 0..MaxPosts} \cup {<<"z", "z">>, <<"1">>}

\* The multipart file part named "image" (the client's filename and the
\* bytes) when the request has none.
NoFile == [originalname |-> "", content |-> ""]

\* POST / requests: the multipart text fields and the file part.
Posts ==
    { [body |-> [name |-> "Cat", type |-> "Mammal",
                 description |-> "A small cat"],
       upload |-> [originalname |-> "cat.jpg", content |-> "bytesA"]],
      [body |-> [name |-> "toucan", type |-> "bird",
                 description |-> "A tropical bird", color |-> "black",
                 lifeSpan |-> "15-20 years"],
       upload |-> [originalname |-> "cat.jpg", content |-> "bytesB"]],
      [body |-> [name |-> "Cat", type |-> "Mammal",
                 description |-> "A small cat"],
       upload |-> NoFile] }

\* JSON bodies of PUT /:id
Bodies ==
    { [name |-> "Updated Cat"],
      [name |-> "", type |-> Null, description |-> "Updated description",
       lifespan |-> "12 years", lifeSpan |-> "1 year",
       imagePath |-> "/uploads/other.jpg", createdAt |-> "Date(7)",
       _id |-> <<"f", "f">>] }

\* Error messages
MsgNoFile == "Cannot read properties of undefined (reading 'filename')"
MsgBadId == "input must be a 24 character hex string, 12 byte Uint8Array, or an integer"
MsgStore == "store error"
MsgNotFound == "Image not found"

\* ------------------------------------------------------------------ state
VARIABLES
    now,        \* Date.now()
    files,      \* uploads/ : filename -> bytes
    images,     \* the "images" collection, in insertion order
    inflight,   \* POST requests between Multer and the response
    ev,         \* the response being sent, and the request it answers
    submitted,  \* history: per inserted document, what its request sent
    answered,   \* history: insertedIds returned with 201
    touched,    \* history: ids matched by an updateOne
    posts       \* history: POST requests that have arrived

vars == <<now, files, images, inflight, ev, submitted, answered, touched, posts>>

\* Positions in the list of POST requests in progress.
Slots == 1..Len(inflight)

\* The list without its i-th request.
RemoveAt(q, i) == [j \in 1..(Len(q) - 1) |-> IF j < i THEN q[j] ELSE q[j + 1]]

NoResult == <<>>

Event(op, id, status, message, result) ==
    [op |-> op, id |-> id, status |-> status, message |-> message,
     result |-> result]

\* No response is being sent.
NoEvent == Event("none", <<>>, 0, "", NoResult)

Init ==
    /\ now = 0
    /\ files = <<>>
    /\ images = <<>>
    /\ inflight = <<>>
    /\ ev = NoEvent
    /\ submitted = <<>>
    /\ answered = {}
    /\ touched = {}
    /\ posts = 0

\* ------------------------------------------------------------ the store
\* Indexes of the documents whose _id is oid.
Matching(coll, oid) == {i \in 1..Len(coll) : coll[i]._id = oid}

\* What findOne returns when no document matches (null in place of a document).
NoDoc == <<>>

\* findOne({_id: oid}): the first matching document, or null.
FindOne(coll, oid) ==
    IF Matching(coll, oid) = {} THEN NoDoc
    ELSE coll[CHOOSE i \in Matching(coll, oid) :
                 \A j \in Matching(coll, oid) : i <= j]

\* $set: the named fields take the given values, the others are kept.
SetFields(doc, set) ==
    [k \in DOMAIN doc \cup DOMAIN set |->
        IF k \in DOMAIN set THEN set[k] ELSE doc[k]]

\* Mutant of UpdateOne: the update is an upsert.
UpdateOneUpsert(coll, oid, set) ==
    IF Matching(coll, oid) = {}
    THEN Append(coll, SetFields([_id |-> oid], BsonDoc(set)))
    ELSE LET i == CHOOSE i \in Matching(coll, oid) :
                      \A j \in Matching(coll, oid) : i <= j
         IN  [coll EXCEPT ![i] = SetFields(coll[i], BsonDoc(set))]

\* updateOne({_id: oid}, {$set: set}): the first matching document only.
UpdateOne(coll, oid, set) ==
    IF Matching(coll, oid) = {} THEN coll
    ELSE LET i == CHOOSE i \in Matching(coll, oid) :
                      \A j \in Matching(coll, oid) : i <= j
         IN  [coll EXCEPT ![i] = SetFields(coll[i], BsonDoc(set))]

UpdateResult(coll, oid, set) ==
    [acknowledged |-> TRUE,
     matchedCount |-> IF Matching(coll, oid) = {} THEN 0 ELSE 1,
     modifiedCount |-> IF UpdateOne(coll, oid, set) = coll THEN 0 ELSE 1,
     upsertedCount |-> 0]

\* Mutant of InsertOne: the new document takes the place of the last one.
InsertOneReplacesLast(coll, doc) ==
    Append(IF coll = <<>> THEN coll ELSE SubSeq(coll, 1, Len(coll) - 1),
           SetFields([_id |-> NewObjectId(Len(coll))], BsonDoc(doc)))

\* insertOne(doc): the driver adds a fresh _id and appends the document.
InsertOne(coll, doc) ==
    Append(coll, SetFields([_id |-> NewObjectId(Len(coll))], BsonDoc(doc)))

\* result.insertedId of the insertOne that gave coll.
InsertedId(coll) == coll[Len(coll)]._id

\* ---------------------------------------------------------------- Multer
\* filename callback: Date.now() + "-" + file.originalname
Filename(t, originalname) == ToString(t) \o "-" \o originalname

\* diskStorage writes the bytes to destination/filename, replacing a file
\* of that name.
WriteFile(dir, fn, content) ==
    [f \in DOMAIN dir \cup {fn} |-> IF f = fn THEN content ELSE dir[f]]

\* express.static("uploads") mounted at /uploads: the bytes served for a
\* URL path, or NotServed when no file of the directory has that path.
NotServed == "<404>"

ServeStatic(dir, path) ==
    IF \E f \in DOMAIN dir : "/uploads/" \o f = path
    THEN dir[CHOOSE f \in DOMAIN dir : "/uploads/" \o f = path]
    ELSE NotServed

\* ---------------------------------------------------------------- POST /
\* new Date() at time t, as the store keeps it.
DateOf(t) == "Date(" \o ToString(t) \o ")"

\* req.file when the request has no file part named "image".
NoReqFile == [filename |-> Undefined, originalname |-> Undefined]

\* req.file as Multer sets it for a request that arrives at time t.
ReqFile(t, up) ==
    IF up = NoFile THEN NoReqFile
    ELSE [filename |-> Filename(t, up.originalname),
          originalname |-> up.originalname]

\* Mutant of ImageData: the path is built from the client's filename.
ImageDataOriginalName(body, file, t) ==
    [name |-> Prop(body, "name"),
     type |-> Prop(body, "type"),
     description |-> Prop(body, "description"),
     color |-> OrEmpty(Prop(body, "color")),
     lifeSpan |-> OrEmpty(Prop(body, "lifeSpan")),
     imagePath |-> "/uploads/" \o file.originalname,
     createdAt |-> DateOf(t)]

\* The document the handler builds from the form and req.file.
ImageData(body, file, t) ==
    [name |-> Prop(body, "name"),
     type |-> Prop(body, "type"),
     description |-> Prop(body, "description"),
     color |-> OrEmpty(Prop(body, "color")),
     lifeSpan |-> OrEmpty(Prop(body, "lifeSpan")),
     imagePath |-> "/uploads/" \o file.filename,
     createdAt |-> DateOf(t)]

\* Mutant of InsertRuns: a missing req.file does not stop the handler
\* (req.file?.filename).
InsertRunsWithoutFile(file, ok) == ok

\* The try block runs to the end of the insertOne call: the read of
\* req.file.filename does not throw (there is a req.file) and the insert
\* resolves.
InsertRuns(file, ok) == file # NoReqFile /\ ok

\* upload.single("image"): Multer stores the file part, if there is one,
\* sets req.file and passes the request on to the handler.
PostUpload(body, up) ==
    /\ ev = NoEvent
    /\ posts < MaxPosts
    /\ posts' = posts + 1
    /\ Len(inflight) < MaxInflight
    /\ files' = IF up = NoFile THEN files
                ELSE WriteFile(files, Filename(now, up.originalname), up.content)
    /\ inflight' = Append(inflight,
           [pc |-> "handler", body |-> body, file |-> ReqFile(now, up),
            upload |-> up])
    /\ ev' = NoEvent
    /\ UNCHANGED <<now, images, submitted, answered, touched>>

\* The handler up to the end of the insertOne call.  Without req.file the
\* read of req.file.filename throws; a failed insert throws; both are
\* answered by the catch block.
PostInsert(s, ok) ==
    /\ ev = NoEvent
    /\ s \in Slots
    /\ inflight[s].pc = "handler"
    /\ IF InsertRuns(inflight[s].file, ok)
       THEN /\ images' = InsertOne(images,
                   ImageData(inflight[s].body, inflight[s].file, now))
            /\ submitted' = Append(submitted,
                   [_id |-> InsertedId(images'),
                    body |-> inflight[s].body,
                    upload |-> inflight[s].upload,
                    filename |-> inflight[s].file.filename])
            /\ inflight' = [inflight EXCEPT ![s] =
                   [pc |-> "respond", insertedId |-> InsertedId(images')]]
            /\ ev' = NoEvent
       ELSE /\ ev' = Event("post", <<>>, 500,
                           IF inflight[s].file = NoReqFile THEN MsgNoFile
                           ELSE MsgStore,
                           NoResult)
            /\ inflight' = RemoveAt(inflight, s)
            /\ UNCHANGED <<images, submitted>>
    /\ UNCHANGED <<now, files, answered, touched, posts>>

\* res.status(201).json(result)
PostRespond(s) ==
    /\ ev = NoEvent
    /\ s \in Slots
    /\ inflight[s].pc = "respond"
    /\ ev' = Event("post", inflight[s].insertedId, 201, "",
                   [acknowledged |-> TRUE, insertedId |-> inflight[s].insertedId])
    /\ answered' = answered \cup {inflight[s].insertedId}
    /\ inflight' = RemoveAt(inflight, s)
    /\ UNCHANGED <<now, files, images, submitted, touched, posts>>

\* ----------------------------------------------------------------- GET /
GetAll(ok) ==
    /\ ev = NoEvent
    /\ ev' = IF ok THEN Event("list", <<>>, 200, "", images)
             ELSE Event("list", <<>>, 500, MsgStore, NoResult)
    /\ UNCHANGED <<now, files, images, inflight, submitted, answered, touched, posts>>

\* -------------------------------------------------------------- GET /:id
GetOne(id, ok) ==
    /\ ev = NoEvent
    /\ ev' = IF ~ObjectIdValid(id) THEN Event("get", id, 500, MsgBadId, NoResult)
             ELSE IF ~ok THEN Event("get", id, 500, MsgStore, NoResult)
             ELSE IF FindOne(images, id) = NoDoc
                  THEN Event("get", id, 404, MsgNotFound, NoResult)
             ELSE Event("get", id, 200, "", FindOne(images, id))
    /\ UNCHANGED <<now, files, images, inflight, submitted, answered, touched, posts>>

\* -------------------------------------------------------------- PUT /:id
\* The keys of the $set document.
UpdatedKeys == {"name", "type", "description", "color", "lifespan"}

\* Mutant of PutSet: imagePath is taken from the body as well.
PutSetWithImagePath(body) ==
    [name |-> Prop(body, "name"),
     type |-> Prop(body, "type"),
     description |-> Prop(body, "description"),
     color |-> Prop(body, "color"),
     lifespan |-> Prop(body, "lifespan"),
     imagePath |-> Prop(body, "imagePath")]

\* Mutant of PutSet: only the keys the body carries are set.
PutSetPresentKeys(body) ==
    [k \in UpdatedKeys \cap DOMAIN body |-> body[k]]

\* Mutant of PutSet: the lifespan value is written to lifeSpan.
PutSetCamelCase(body) ==
    [name |-> Prop(body, "name"),
     type |-> Prop(body, "type"),
     description |-> Prop(body, "description"),
     color |-> Prop(body, "color"),
     lifeSpan |-> Prop(body, "lifespan")]

\* The $set document: always these five keys, read from the body.
PutSet(body) ==
    [name |-> Prop(body, "name"),
     type |-> Prop(body, "type"),
     description |-> Prop(body, "description"),
     color |-> Prop(body, "color"),
     lifespan |-> Prop(body, "lifespan")]

PutOne(id, body, ok) ==
    /\ ev = NoEvent
    /\ IF ObjectIdValid(id) /\ ok
       THEN /\ images' = UpdateOne(images, id, PutSet(body))
            /\ touched' = IF Matching(images, id) = {} THEN touched
                          ELSE touched \cup {id}
            /\ ev' = Event("put", id, 200, "",
                           UpdateResult(images, id, PutSet(body)))
       ELSE /\ ev' = Event("put", id, 500,
                           IF ObjectIdValid(id) THEN MsgStore ELSE MsgBadId,
                           NoResult)
            /\ UNCHANGED <<images, touched>>
    /\ UNCHANGED <<now, files, inflight, submitted, answered, posts>>

\* ------------------------------------------------------------ environment
\* A millisecond passes.
Tick ==
    /\ ev = NoEvent
    /\ now < MaxTime
    /\ now' = now + 1
    /\ ev' = NoEvent
    /\ UNCHANGED <<files, images, inflight, submitted, answered, touched, posts>>

\* The process stops and is started again: requests in progress are lost,
\* the upload directory and the collection stay as they are.
Crash ==
    /\ ev = NoEvent
    /\ inflight # <<>>
    /\ inflight' = <<>>
    /\ ev' = NoEvent
    /\ UNCHANGED <<now, files, images, submitted, answered, touched, posts>>

\* The response has left; the event loop takes the next callback.
Sent ==
    /\ ev # NoEvent
    /\ ev' = NoEvent
    /\ UNCHANGED <<now, files, images, inflight, submitted, answered, touched, posts>>

Next ==
    \/ \E p \in Posts : PostUpload(p.body, p.upload)
    \/ \E s \in 1..MaxInflight, ok \in BOOLEAN : PostInsert(s, ok)
    \/ \E s \in 1..MaxInflight : PostRespond(s)
    \/ \E ok \in BOOLEAN : GetAll(ok)
    \/ \E id \in ParamIds, ok \in BOOLEAN : GetOne(id, ok)
    \/ \E id \in ParamIds, body \in Bodies, ok \in BOOLEAN : PutOne(id, body, ok)
    \/ Tick
    \/ Crash
    \/ Sent

Spec == Init /\ [][Next]_vars

\* ================================================================ claims
\* A string that new ObjectId accepts: a hex string of the full length.
WellFormedId(id) == id \in [1..ObjectIdHexLen -> HexChars]

\* Some document of coll has this _id.
Exists(coll, id) == \E i \in 1..Len(coll) : coll[i]._id = id

\* The step is a successful PUT of body to id.
PutStep(id, body) == WellFormedId(id) /\ PutOne(id, body, TRUE)

\* C1: a PUT on an existing record, whatever keys its body carries, leaves
\* the record's _id, imagePath and createdAt as they were and changes no
\* field other than name, type, description, color and lifespan; no step at
\* all changes _id, imagePath or createdAt of a record.
C1_UpdateKeepsIdPathCreated ==
    [][ /\ Len(images') >= Len(images)
        /\ \A i \in 1..Len(images) :
               /\ images'[i]._id = images[i]._id
               /\ images'[i].imagePath = images[i].imagePath
               /\ images'[i].createdAt = images[i].createdAt
        /\ ev'.op = "put" =>
               /\ Len(images') = Len(images)
               /\ \A i \in 1..Len(images) :
                      /\ DOMAIN images[i] \subseteq DOMAIN images'[i]
                      /\ DOMAIN images'[i] \subseteq DOMAIN images[i] \cup UpdatedKeys
                      /\ \A k \in DOMAIN images[i] \ UpdatedKeys :
                             images'[i][k] = images[i][k] ]_vars

\* A PUT whose body carries imagePath, createdAt and _id has modified a record.
C1_Witness ==
    /\ ev.op = "put"
    /\ ev.status = 200
    /\ ev.result.modifiedCount = 1
    /\ \E i \in 1..Len(images) :
           /\ images[i]._id = ev.id
           /\ images[i].description = "Updated description"
           /\ images[i].imagePath = "/uploads/" \o submitted[i].filename

\* C2: any two uploads are stored under distinct filenames, so no two
\* records share an imagePath.
C2_DistinctImagePaths ==
    \A i, j \in 1..Len(images) :
        i # j => images[i].imagePath # images[j].imagePath

\* The ids of the documents inserted so far.
Inserted == {submitted[i]._id : i \in 1..Len(submitted)}

\* C3 as amended: a list returns no record twice and returns exactly the
\* records of the creates whose insert has completed: one for every create
\* answered 201, and one for every create that has inserted its record and
\* has not been answered (its 201 is still to be sent, or the process
\* stopped before sending it).
C3_ListExactlyTheInserted ==
    (ev.op = "list" /\ ev.status = 200) =>
        /\ \A i, j \in 1..Len(ev.result) :
               i # j => ev.result[i]._id # ev.result[j]._id
        /\ {ev.result[i]._id : i \in 1..Len(ev.result)} = Inserted
        /\ answered \subseteq Inserted
        /\ Len(ev.result) =
               Cardinality(answered) + Cardinality(Inserted \ answered)

\* C3 as stated: once some creates have been answered 201, a list returns
\* no record twice, returns the record of every create answered 201, and
\* returns exactly as many records as creates have been answered 201.
C3_ListCountsTheAnswered ==
    (ev.op = "list" /\ ev.status = 200 /\ answered # {}) =>
        /\ \A i, j \in 1..Len(ev.result) :
               i # j => ev.result[i]._id # ev.result[j]._id
        /\ \A id \in answered : Exists(ev.result, id)
        /\ Len(ev.result) = Cardinality(answered)

\* A list after two creates answered 201, one of them updated since.
C3_Witness ==
    /\ ev.op = "list"
    /\ ev.status = 200
    /\ Cardinality(answered) = 2
    /\ Inserted \subseteq answered
    /\ touched # {}
    /\ Len(ev.result) = 2

\* C4: a get-by-id of a record whose create was answered 201, and which no
\* update has touched, returns the submitted name, type and description and
\* an imagePath that serves the bytes uploaded in that create.
C4_GetReturnsWhatWasUploaded ==
    (ev.op = "get" /\ ev.status = 200 /\ ev.id \in answered /\ ev.id \notin touched) =>
        \A i \in 1..Len(submitted) :
            submitted[i]._id = ev.id =>
                /\ ev.result.name = submitted[i].body.name
                /\ ev.result.type = submitted[i].body.type
                /\ ev.result.description = submitted[i].body.description
                /\ ServeStatic(files, ev.result.imagePath) = submitted[i].upload.content

\* C5: a PUT with a well-formed id that matches no record changes nothing in
\* the collection and is answered 200 with matchedCount 0 and modifiedCount
\* 0, or 500 with the store's error when the store call fails; never 404.
C5_UpdateOfMissingId ==
    [][ (/\ ev'.op = "put"
         /\ WellFormedId(ev'.id)
         /\ ~Exists(images, ev'.id)) =>
            /\ images' = images
            /\ \/ /\ ev'.status = 200
                  /\ ev'.result.matchedCount = 0
                  /\ ev'.result.modifiedCount = 0
               \/ /\ ev'.status = 500
                  /\ ev'.message = MsgStore ]_vars

\* A PUT on a collection of two records matched none of them.
C5_Witness ==
    /\ ev.op = "put"
    /\ ev.status = 200
    /\ ev.result.matchedCount = 0
    /\ Len(images) = 2

\* C6: GET /:id changes nothing in the collection; a malformed id is
\* answered 500 with the parse error; a well-formed id is answered 200 with
\* the one record of that id when there is one, 404 "Image not found" when
\* there is none, or 500 with the store's error when the store call fails.
C6_GetById ==
    [][ ev'.op = "get" =>
            /\ images' = images
            /\ IF ~WellFormedId(ev'.id)
               THEN ev'.status = 500 /\ ev'.message = MsgBadId
               ELSE \/ /\ ev'.status = 500
                       /\ ev'.message = MsgStore
                    \/ /\ Exists(images, ev'.id)
                       /\ ev'.status = 200
                       /\ ev'.result._id = ev'.id
                       /\ \E i \in 1..Len(images) : images[i] = ev'.result
                    \/ /\ ~Exists(images, ev'.id)
                       /\ ev'.status = 404
                       /\ ev'.message = "Image not found" ]_vars

\* The second of two records has been fetched.
C6_Witness ==
    /\ ev.op = "get"
    /\ ev.status = 200
    /\ Len(images) = 2
    /\ ev.result = images[2]

\* C7: a response to a create ends that request (it is not run again) and
\* adds nothing to the collection; a request still in the handler is
\* answered 500, with the TypeError's message when it has no file part and
\* with the store's message when the insert failed; 201 carries the id of
\* exactly one record, inserted by that request and not answered before.
\* The collection grows only by one record at a time, for a request that
\* has a file part.
C7_FailedCreate ==
    [][ /\ ev'.op = "post" =>
               \E s \in 1..Len(inflight) :
                   /\ inflight' = RemoveAt(inflight, s)
                   /\ images' = images
                   /\ \/ /\ inflight[s].pc = "handler"
                         /\ ev'.status = 500
                         /\ ev'.message = IF inflight[s].upload = NoFile
                                          THEN MsgNoFile ELSE MsgStore
                      \/ /\ inflight[s].pc = "respond"
                         /\ ev'.status = 201
                         /\ ev'.result.insertedId = inflight[s].insertedId
                         /\ ev'.result.insertedId \notin answered
                         /\ Cardinality({i \in 1..Len(images) :
                                 images[i]._id = ev'.result.insertedId}) = 1
        /\ Len(images') # Len(images) =>
               /\ Len(images') = Len(images) + 1
               /\ ev' = NoEvent
               /\ \E s \in 1..Len(inflight) :
                      /\ inflight[s].pc = "handler"
                      /\ inflight[s].upload # NoFile
                      /\ inflight'[s].pc = "respond"
                      /\ inflight'[s].insertedId = images'[Len(images')]._id ]_vars

\* An insert has failed: 500, no record, and the written file is still there.
C7_Witness ==
    /\ ev.op = "post"
    /\ ev.status = 500
    /\ ev.message = MsgStore
    /\ images = <<>>
    /\ DOMAIN files # {}

\* C8: after every step, each record's imagePath is /uploads/ followed by
\* the filename under which Multer stored the file part of that record's
\* create request, and a file of that name is in the upload directory; no
\* step removes a file from the upload directory.
C8_ImagePathNamesWrittenFile ==
    [][ /\ \A i \in 1..Len(images') :
               /\ submitted'[i]._id = images'[i]._id
               /\ \E t \in 0..MaxTime :
                      submitted'[i].filename =
                          Filename(t, submitted'[i].upload.originalname)
               /\ images'[i].imagePath = "/uploads/" \o submitted'[i].filename
               /\ submitted'[i].filename \in DOMAIN files'
               /\ ServeStatic(files', images'[i].imagePath) # NotServed
        /\ \A f \in DOMAIN files : f \in DOMAIN files' ]_vars

\* A record has been updated, and a file that no record names is on disk
\* while no request is in progress.
C8_Witness ==
    /\ inflight = <<>>
    /\ Len(images) >= 1
    /\ touched # {}
    /\ \E f \in DOMAIN files :
           \A i \in 1..Len(images) : images[i].imagePath # "/uploads/" \o f

\* C9 as amended: a successful PUT on an existing record writes all five
\* keys; a key the body carries takes the body's value (the empty string
\* stays the empty string), a key the body omits is set to null whatever
\* the record held, the same as a key sent as null.
C9_UpdateWritesAllFiveKeys ==
    [][ \A id \in ParamIds, body \in Bodies :
            PutStep(id, body) =>
                \A i \in 1..Len(images) :
                    images[i]._id = id =>
                        \A k \in UpdatedKeys :
                            /\ k \in DOMAIN images'[i]
                            /\ images'[i][k] =
                                   IF k \in DOMAIN body THEN body[k] ELSE Null ]_vars

\* A PUT of {name} has set the color that the create stored to null.
C9_Witness ==
    /\ ev.op = "put"
    /\ ev.status = 200
    /\ \E i \in 1..Len(images) :
           /\ images[i]._id = ev.id
           /\ submitted[i].body.name = "toucan"
           /\ images[i].name = "Updated Cat"
           /\ images[i].color = Null

\* C9 as stated: a successful PUT on an existing record writes all five
\* keys, and a key the body omits is stored as a key sent empty (the empty
\* string) is.
C9_OmittedSameAsEmpty ==
    [][ \A id \in ParamIds, body \in Bodies :
            PutStep(id, body) =>
                \A i \in 1..Len(images) :
                    images[i]._id = id =>
                        \A k \in UpdatedKeys :
                            /\ k \in DOMAIN images'[i]
                            /\ images'[i][k] =
                                   IF k \in DOMAIN body THEN body[k] ELSE "" ]_vars

====
